---------------------------- MODULE Spec2Model ----------------------------
(***************************************************************************)
(* Model of the HR service layer (lightrag/hr_service.py): the skill       *)
(* normalizer, the file-backed candidate / evaluation store and the        *)
(* operations of HRService on it, as they interleave under asyncio.        *)
(*                                                                         *)
(* Conventions                                                             *)
(*   - a Python str is a sequence of one-character strings;                *)
(*   - a Python dict is a function whose DOMAIN is its key set;            *)
(*   - a Python list is a sequence;                                        *)
(*   - a float with one decimal (the trust weights) is stored in tenths.   *)
(***************************************************************************)
EXTENDS Integers, Sequences, FiniteSets, Bags, TLC

VARIABLES
    candidates,   \* candidates_dir: candidate id -> content of <id>.json
    evaluations,  \* evaluations_dir: <<candidate id, evaluation id>> -> content
    pending,      \* bag of add_interview_evaluation coroutines suspended at the LLM
                  \* await, each with the candidate_data it has read
    clock,        \* datetime.now(), a logical clock
    last,         \* the request that changed the store last: [op, id, ret]
    pc,           \* position of the harness of a pure function
    arg,          \* its input: a skill string, an evaluation
    res,          \* normalize_skill(arg), _calculate_weighted_score(arg)
    res2,         \* normalize_skill(res)
    mpc,          \* position of the match_job coroutine
    top_k,                 \* match_job: its argument
    job_requirements,      \* match_job: the parsed job analysis
    rag_result,            \* match_job: the context rag.aquery returned
    all_candidates,        \* match_job: what get_all_candidates returned
    candidate_evaluations, \* match_job: the evaluations read for the candidate
                           \* whose scoring call is awaited
    matched_candidates,    \* match_job: the entries appended so far
    result                 \* match_job: the dict it returned

vars == <<candidates, evaluations, pending, clock, last, pc, arg, res, res2,
          mpc, top_k, job_requirements, rag_result, all_candidates,
          candidate_evaluations, matched_candidates, result>>
storeVars == <<candidates, evaluations, pending, clock, last>>
normVars == <<pc, arg, res, res2>>
matchVars == <<mpc, top_k, job_requirements, rag_result, all_candidates,
               candidate_evaluations, matched_candidates, result>>

---------------------------------------------------------------------------
(* Bounds of the model *)

\* candidate / evaluation ids are drawn from 1..MaxId (str(uuid.uuid4())[:8])
MaxId == 2
\* number of writing requests served in one behaviour (the last clock value)
MaxClock == 2
\* length of the enumerated normalizer inputs
MaxLen == 3

---------------------------------------------------------------------------
(* Python str primitives *)

UpperChars == <<"A","B","C","D","E","F","G","H","I","J","K","L","M",
                "N","O","P","Q","R","S","T","U","V","W","X","Y","Z">>
LowerChars == <<"a","b","c","d","e","f","g","h","i","j","k","l","m",
                "n","o","p","q","r","s","t","u","v","w","x","y","z">>
WhiteSpace == {" ", "\t"}

LowerChar(c) ==
    IF \E i \in 1..Len(UpperChars) : UpperChars[i] = c
    THEN LowerChars[CHOOSE i \in 1..Len(UpperChars) : UpperChars[i] = c]
    ELSE c

\* str.lower()
lower(s) == [i \in 1..Len(s) |-> LowerChar(s[i])]

\* str.strip(): drop leading and trailing whitespace
strip(s) ==
    LET keep == {i \in 1..Len(s) : s[i] \notin WhiteSpace}
    IN  IF keep = {} THEN <<>>
        ELSE LET lo == CHOOSE i \in keep : \A j \in keep : i <= j
                 hi == CHOOSE i \in keep : \A j \in keep : i >= j
             IN  SubSeq(s, lo, hi)

\* str.startswith(prefix)
startswith(s, prefix) ==
    /\ Len(prefix) <= Len(s)
    /\ SubSeq(s, 1, Len(prefix)) = prefix

\* str.replace(old, new): every non-overlapping occurrence, left to right
RECURSIVE replace(_, _, _)
replace(s, old, new) ==
    IF Len(s) < Len(old) \/ old = <<>> THEN s
    ELSE IF startswith(s, old)
         THEN new \o replace(SubSeq(s, Len(old) + 1, Len(s)), old, new)
         ELSE <<Head(s)>> \o replace(Tail(s), old, new)

---------------------------------------------------------------------------
(* Skill normalizer: HRService._normalize_skills *)

\* skill_mappings, in dict insertion order: <<old, new>>
skill_mappings == <<
    << <<".","n","e","t">>,                         <<"d","o","t","n","e","t">> >>,
    << <<".","n","e","t"," ","c","o","r","e">>,     <<"d","o","t","n","e","t"," ","c","o","r","e">> >>,
    << <<".","n","e","t"," ","f","r","a","m","e","w","o","r","k">>,
       <<"d","o","t","n","e","t"," ","f","r","a","m","e","w","o","r","k">> >>,
    << <<"c","#">>,                                 <<"c","s","h","a","r","p">> >>,
    << <<"c","+","+">>,                             <<"c","p","p">> >>,
    << <<"n","o","d","e",".","j","s">>,             <<"n","o","d","e","j","s">> >>,
    << <<"r","e","a","c","t",".","j","s">>,         <<"r","e","a","c","t","j","s">> >>,
    << <<"v","u","e",".","j","s">>,                 <<"v","u","e","j","s">> >>,
    << <<"n","e","x","t",".","j","s">>,             <<"n","e","x","t","j","s">> >>,
    << <<"e","x","p","r","e","s","s",".","j","s">>, <<"e","x","p","r","e","s","s","j","s">> >>,
    << <<"a","n","g","u","l","a","r",".","j","s">>, <<"a","n","g","u","l","a","r","j","s">> >>,
    << <<"f","#">>,                                 <<"f","s","h","a","r","p">> >> >>

\* one iteration of "for old, new in skill_mappings.items()"
mapping_matches(normalized, old) ==
    normalized = old \/ startswith(normalized, old \o <<" ">>)

\* the for loop from rule i on: every rule is tried, a match does not break
RECURSIVE apply_mappings(_, _)
apply_mappings(normalized, i) ==
    IF i > Len(skill_mappings) THEN normalized
    ELSE LET old == skill_mappings[i][1]
             new == skill_mappings[i][2]
         IN  IF mapping_matches(normalized, old)
             THEN apply_mappings(replace(normalized, old, new), i + 1)
             ELSE apply_mappings(normalized, i + 1)

\* the table looked up on the raw string, lowercasing done last
normalize_skill_MapBeforeLower(skill) ==
    IF skill = <<>> THEN skill
    ELSE strip(lower(apply_mappings(skill, 1)))

normalize_skill(skill) ==
    IF skill = <<>> THEN skill
    ELSE apply_mappings(strip(lower(skill)), 1)

---------------------------------------------------------------------------
(* Python dict / list primitives *)

EmptyDict == <<>>

\* d.get(k, default)
Get(d, k, default) == IF k \in DOMAIN d THEN d[k] ELSE default

\* d[k] = v
Put(d, k, v) == [x \in DOMAIN d \cup {k} |-> IF x = k THEN v ELSE d[x]]

\* d.update(e)
Update(d, e) == [x \in DOMAIN d \cup DOMAIN e |-> IF x \in DOMAIN e THEN e[x] ELSE d[x]]

\* truthiness of a str or a list
Truthy(x) == Len(x) > 0

Range(l) == {l[i] : i \in 1..Len(l)}

\* [f(x) for x in l]
MapSeq(f(_), l) == [i \in 1..Len(l) |-> f(l[i])]

NoDuplicates(l) == \A i, j \in 1..Len(l) : l[i] = l[j] => i = j

IsPrefix(p, l) == Len(p) <= Len(l) /\ SubSeq(l, 1, Len(p)) = p

---------------------------------------------------------------------------
(* The files under hr_data/ *)

\* a file that open(..., "w") has truncated and nothing has been written to
EmptyFile == <<>>

\* Path.exists()
exists(dir, name) == name \in DOMAIN dir

\* the file is opened for writing and the text never reaches it
write_text_Truncating(dir, name, content) ==
    [n \in DOMAIN dir \cup {name} |-> IF n = name THEN EmptyFile ELSE dir[n]]

\* Path.write_text(): open for writing truncates (or creates) the file, then
\* the whole text is written; no await separates the two
write_text(dir, name, content) ==
    LET opened == [n \in DOMAIN dir \cup {name} |->
                      IF n = name THEN EmptyFile ELSE dir[n]]
    IN  [n \in DOMAIN opened |-> IF n = name THEN content ELSE opened[n]]

\* Path.unlink()
unlink(dir, names) == [n \in DOMAIN dir \ names |-> dir[n]]

\* json.loads(read_text()) succeeds
parses(content) == DOMAIN content # {}

\* evaluations_dir.glob(f"{candidate_id}_*.json"): ids all have 8 characters,
\* so the prefix "<candidate_id>_" selects the files of exactly that candidate
glob_evaluations(dir, candidate_id) == {k \in DOMAIN dir : k[1] = candidate_id}

---------------------------------------------------------------------------
(* Constants of HRService *)

\* INTERVIEW_WEIGHT = 2.5 and CV_WEIGHT = 1.0, in tenths
INTERVIEW_WEIGHT == 25
CV_WEIGHT == 10

\* str(uuid.uuid4())[:8]: any id of the id space, stored or not
IdSpace == 1..MaxId

allowed_fields == <<"personal_info", "summary", "skills",
                    "experience", "education", "certifications", "projects">>

\* JSON shape of a value of the candidate schema, by field: isinstance(v, dict)
\* and isinstance(v, list) of update_candidate are decided on these
DictFields == {"personal_info", "skills"}
ListFields == {"experience", "education", "certifications", "projects"}

---------------------------------------------------------------------------
(* Inputs: what the collaborators return and what callers pass *)

sk_CSharp == <<"C","#">>
sk_csharp == <<"c","s","h","a","r","p">>
sk_Go     == <<"G","o">>
sk_go     == <<"g","o">>
sk_blank  == <<" ">>
sk_cpp    == <<"c","+","+">>
sk_empty  == <<>>

\* a JSON scalar inside a list: its type and its str() form
ItemStrA == [t |-> "str", v |-> "a"]
ItemStr1 == [t |-> "str", v |-> "1"]
ItemInt1 == [t |-> "int", v |-> "1"]

\* str(item) of update_candidate: equal for the string "1" and the number 1
Str(item) == IF "t" \in DOMAIN item THEN item.v ELSE item

\* parsed responses of the CV extraction call
CVOutputs == {
    [personal_info |-> [name |-> "Ann"],
     summary       |-> "s0",
     skills        |-> [technical |-> <<sk_CSharp, sk_go>>, soft |-> <<sk_Go>>],
     experience    |-> <<ItemStrA>>,
     projects      |-> << [name |-> "p", technologies |-> <<sk_cpp>>] >>],
    [skills        |-> [technical |-> <<sk_Go, sk_go>>, soft |-> <<sk_blank>>],
     _weight       |-> 99,
     _id           |-> 99] }

\* update_data of update_candidate
UpdatePatches == {
    [skills |-> [technical |-> <<sk_cpp>>, soft |-> <<sk_empty>>], _merge_lists |-> TRUE],
    [experience |-> <<ItemStr1, ItemInt1>>, _merge_lists |-> TRUE,
     _weight |-> 99, _id |-> 99, evaluations |-> <<>>, hobby |-> "h"],
    [summary |-> "s1", experience |-> <<ItemStr1>>, personal_info |-> [email |-> "e"]] }

\* new_skills of add_skills_to_candidate
NewSkills == {
    [technical |-> <<sk_CSharp, sk_CSharp>>],
    [technical |-> <<sk_go, sk_empty>>, soft |-> <<sk_Go>>] }

\* a value of soft_skills_assessment: its JSON type and, for a number, its value
Num(n)  == [t |-> "num", n |-> n]
Text    == [t |-> "str", n |-> 0]

\* parsed responses of the interview evaluation call
EvalOutputs == {
    [overall_recommendation |-> "hire",
     technical_assessment   |-> [score |-> 8],
     soft_skills_assessment |-> [communication |-> Num(8), teamwork |-> Num(6),
                                 notes |-> Text],
     cultural_fit           |-> [score |-> 10],
     _weight                |-> 99],
    EmptyDict }

SourceFile == "cv.pdf"

---------------------------------------------------------------------------
(* HRService: the pure parts of the handlers *)

\* [normalize_skill(s) for s in l if s]
normalize_list(l) == MapSeq(normalize_skill, SelectSeq(l, Truthy))

normalize_key(d, k) ==
    IF Truthy(Get(d, k, <<>>)) THEN Put(d, k, normalize_list(d[k])) ELSE d

_normalize_skills(candidate_data) ==
    LET skills   == normalize_key(normalize_key(Get(candidate_data, "skills", EmptyDict),
                                                "technical"), "soft")
        projects == Get(candidate_data, "projects", <<>>)
        normalized_projects ==
            [i \in 1..Len(projects) |-> normalize_key(projects[i], "technologies")]
    IN  Put(Put(candidate_data, "skills", skills), "projects", normalized_projects)

\* round(a / b, 0) for b > 0, ties to even
RoundHalfEven(a, b) ==
    LET q == a \div b
        r == a % b
    IN  IF 2 * r < b THEN q
        ELSE IF 2 * r > b THEN q + 1
        ELSE IF q % 2 = 0 THEN q ELSE q + 1

RECURSIVE SumNum(_, _)
SumNum(d, keys) ==
    IF keys = {} THEN 0
    ELSE LET k == CHOOSE x \in keys : TRUE
         IN  d[k].n + SumNum(d, keys \ {k})

\* the score in tenths: round(sum(scores) / len(scores) * 10, 1)
_calculate_weighted_score(evaluation_data) ==
    LET tech == Get(Get(evaluation_data, "technical_assessment", EmptyDict), "score", 0)
        soft == Get(evaluation_data, "soft_skills_assessment", EmptyDict)
        soft_scores == {k \in DOMAIN soft : soft[k].t = "num" /\ k # "notes"}
        cult == Get(Get(evaluation_data, "cultural_fit", EmptyDict), "score", 0)
        n    == IF soft_scores = {} THEN 1 ELSE Cardinality(soft_scores)
        len  == (IF tech # 0 THEN 1 ELSE 0) + (IF soft_scores # {} THEN 1 ELSE 0)
                + (IF cult # 0 THEN 1 ELSE 0)
        \* sum(scores) = total / n
        total == (tech + cult) * n + SumNum(soft, soft_scores)
    IN  IF len = 0 THEN 0 ELSE RoundHalfEven(100 * total, n * len)

\* the metadata is set first and the LLM's keys are laid over it
evaluation_record_OutputWins(output, candidate_id, evaluation_id, now) ==
    Update([_id           |-> evaluation_id,
            _candidate_id |-> candidate_id,
            _evaluated_at |-> now,
            _weight       |-> INTERVIEW_WEIGHT], output)

\* add_interview_evaluation, "Add metadata"
evaluation_record(output, candidate_id, evaluation_id, now) ==
    Update(output, [_id           |-> evaluation_id,
                    _candidate_id |-> candidate_id,
                    _evaluated_at |-> now,
                    _weight       |-> INTERVIEW_WEIGHT])

\* add_interview_evaluation, "Update candidate with evaluation summary"
append_summary(candidate_data, evaluation_data) ==
    LET summary == [evaluation_id          |-> evaluation_data["_id"],
                    overall_recommendation |->
                        Get(evaluation_data, "overall_recommendation", "None"),
                    weighted_score         |-> _calculate_weighted_score(evaluation_data),
                    evaluated_at           |-> evaluation_data["_evaluated_at"]]
    IN  Put(candidate_data, "evaluations",
            Get(candidate_data, "evaluations", <<>>) \o <<summary>>)

\* extract_candidate_info, "Generate candidate ID"
candidate_record(output, candidate_id, now) ==
    Update(_normalize_skills(output), [_id           |-> candidate_id,
                                       _source_file  |-> SourceFile,
                                       _extracted_at |-> now,
                                       _data_source  |-> "cv",
                                       _weight       |-> CV_WEIGHT])

\* update_candidate, "Merge lists (add new items)": existing is computed once
merge_lists(existing_list, patch_list) ==
    LET existing == {Str(item) : item \in Range(existing_list)}
    IN  existing_list \o SelectSeq(patch_list, LAMBDA item : Str(item) \notin existing)

\* update_candidate, the body of "for field in allowed_fields"
update_field(candidate_data, update_data, field) ==
    IF field \notin DOMAIN update_data THEN candidate_data
    ELSE IF field \in DictFields /\ field \in DOMAIN candidate_data
    THEN Put(candidate_data, field, Update(candidate_data[field], update_data[field]))
    ELSE IF field \in ListFields /\ field \in DOMAIN candidate_data
    THEN IF Get(update_data, "_merge_lists", FALSE)
         THEN Put(candidate_data, field,
                  merge_lists(candidate_data[field], update_data[field]))
         ELSE Put(candidate_data, field, update_data[field])
    ELSE Put(candidate_data, field, update_data[field])

RECURSIVE update_fields(_, _, _)
update_fields(candidate_data, update_data, i) ==
    IF i > Len(allowed_fields) THEN candidate_data
    ELSE update_fields(update_field(candidate_data, update_data, allowed_fields[i]),
                       update_data, i + 1)

\* candidate_data.update(update_data): every key of the patch is taken
updated_record_WholePatch(candidate_data, update_data, now) ==
    Put(Update(candidate_data, update_data), "_updated_at", now)

\* update_candidate, from the read to the record that is written
updated_record(candidate_data, update_data, now) ==
    Put(update_fields(candidate_data, update_data, 1), "_updated_at", now)

\* add_skills_to_candidate, "Add new technical skills" / "Add new soft skills":
\* the set of existing skills is computed once, before the loop
add_skill_list(existing_skills, new_skills, kind) ==
    IF Truthy(Get(new_skills, kind, <<>>))
    THEN LET existing == {s \in Range(Get(existing_skills, kind, <<>>)) : Truthy(s)}
             added    == SelectSeq(new_skills[kind],
                                   LAMBDA skill : Truthy(skill) /\ skill \notin existing)
         IN  IF added = <<>> THEN existing_skills
             ELSE Put(existing_skills, kind, Get(existing_skills, kind, <<>>) \o added)
    ELSE existing_skills

\* add_skills_to_candidate, from the read to the record that is written
skills_added_record(candidate_data, new_skills, now) ==
    LET existing_skills ==
            Get(candidate_data, "skills", [technical |-> <<>>, soft |-> <<>>])
        skills == add_skill_list(add_skill_list(existing_skills, new_skills, "technical"),
                                 new_skills, "soft")
    IN  Put(Put(candidate_data, "skills", skills), "_updated_at", now)

---------------------------------------------------------------------------
(* HRService: the read operations, as functions of the store *)

\* _get_candidate_evaluations: the records that parse
_get_candidate_evaluations(candidate_id) ==
    {evaluations[k] : k \in {g \in glob_evaluations(evaluations, candidate_id) :
                                parses(evaluations[g])}}

\* the scan gives up at a file that does not parse
get_all_candidates_result_AbortsOnCorrupt ==
    IF \E c \in DOMAIN candidates : ~parses(candidates[c]) THEN {}
    ELSE {candidates[c] : c \in DOMAIN candidates}

\* get_all_candidates: the records that parse
get_all_candidates_result ==
    {candidates[c] : c \in {g \in DOMAIN candidates : parses(candidates[g])}}

\* what get_candidate returns: None, an exception of json.loads, or the record
get_candidate_outcome(candidate_id) ==
    IF ~exists(candidates, candidate_id) THEN "none"
    ELSE IF ~parses(candidates[candidate_id]) THEN "raise"
    ELSE "ok"

---------------------------------------------------------------------------
(* The store and the requests in flight *)

Done(op, id, ret) == [op |-> op, id |-> id, ret |-> ret]

InFlight(candidate_id) == \E r \in BagToSet(pending) : r.id = candidate_id

\* the normalizer harness is not part of the store's behaviours
NormIdle == pc = "off" /\ arg = <<>> /\ res = <<>> /\ res2 = <<>>

\* no match_job request has been made
MatchIdle ==
    /\ mpc = "idle"
    /\ top_k = 0
    /\ job_requirements = <<>>
    /\ rag_result = ""
    /\ all_candidates = <<>>
    /\ candidate_evaluations = {}
    /\ matched_candidates = <<>>
    /\ result = <<>>

\* hr_data/ as an earlier run of the service can have left it: a candidate
\* extracted from the first CV output, with one evaluation, at time 0
StoredCandidate(id) ==
    LET output == CHOOSE o \in CVOutputs : "summary" \in DOMAIN o
        answer == CHOOSE o \in EvalOutputs : "cultural_fit" \in DOMAIN o
    IN  append_summary(candidate_record(output, id, 0), evaluation_record(answer, id, id, 0))

StoredEvaluation(id) ==
    LET answer == CHOOSE o \in EvalOutputs : "cultural_fit" \in DOMAIN o
    IN  evaluation_record(answer, id, id, 0)

\* HRService.__init__: the directories exist (mkdir(exist_ok=True)); they are
\* empty or hold what earlier runs have written for the ids 1..n
Init ==
    /\ \E n \in {0, 2} :
          /\ candidates = [id \in 1..n |-> StoredCandidate(id)]
          /\ evaluations = [k \in {<<id, id>> : id \in 1..n} |-> StoredEvaluation(k[1])]
    /\ pending = EmptyBag
    /\ clock = 1
    /\ last = Done("init", 0, "none")
    /\ NormIdle
    /\ MatchIdle

\* extract_candidate_info: nothing is read before the LLM await; after it the
\* record is built and written without another await
extract_candidate_info(output, candidate_id) ==
    /\ clock <= MaxClock
    /\ candidates' = write_text(candidates, candidate_id,
                                candidate_record(output, candidate_id, clock))
    /\ clock' = clock + 1
    /\ last' = Done("extract_candidate_info", candidate_id, "ok")
    /\ UNCHANGED <<evaluations, pending>>

\* extract_candidate_info when the LLM call raises: logged and re-raised,
\* nothing is written
extract_candidate_info_raises ==
    UNCHANGED <<candidates, evaluations, pending, clock, last>>

\* add_interview_evaluation up to "await self.rag.llm_model_func"; a request
\* is admitted only while the clock lets it finish
add_interview_evaluation_begin(candidate_id) ==
    /\ clock + BagCardinality(pending) <= MaxClock
    /\ IF exists(candidates, candidate_id) /\ parses(candidates[candidate_id])
       THEN pending' = pending (+) SetToBag({[id   |-> candidate_id,
                                             data |-> candidates[candidate_id]]})
       ELSE UNCHANGED pending   \* ValueError("Candidate not found"), or json.loads raises
    /\ UNCHANGED <<candidates, evaluations, clock, last>>

\* the candidate file is read again after the LLM's answer
add_interview_evaluation_finish_Rereads(request, output, evaluation_id) ==
    /\ BagIn(request, pending)
    /\ clock <= MaxClock
    /\ LET candidate_id    == request.id
           evaluation_data == evaluation_record(output, candidate_id, evaluation_id, clock)
       IN  /\ evaluations' = write_text(evaluations, <<candidate_id, evaluation_id>>,
                                        evaluation_data)
           /\ candidates' = write_text(candidates, candidate_id,
                                       append_summary(Get(candidates, candidate_id, request.data),
                                                      evaluation_data))
           /\ last' = Done("add_interview_evaluation", candidate_id, "ok")
    /\ pending' = pending (-) SetToBag({request})
    /\ clock' = clock + 1

\* add_interview_evaluation from the LLM's answer to the candidate write
add_interview_evaluation_finish(request, output, evaluation_id) ==
    /\ BagIn(request, pending)
    /\ clock <= MaxClock
    /\ LET candidate_id    == request.id
           evaluation_data == evaluation_record(output, candidate_id, evaluation_id, clock)
       IN  /\ evaluations' = write_text(evaluations, <<candidate_id, evaluation_id>>,
                                        evaluation_data)
           /\ candidates' = write_text(candidates, candidate_id,
                                       append_summary(request.data, evaluation_data))
           /\ last' = Done("add_interview_evaluation", candidate_id, "ok")
    /\ pending' = pending (-) SetToBag({request})
    /\ clock' = clock + 1

\* add_interview_evaluation when the LLM call raises: logged and re-raised
add_interview_evaluation_raises(request) ==
    /\ BagIn(request, pending)
    /\ pending' = pending (-) SetToBag({request})
    /\ UNCHANGED <<candidates, evaluations, clock, last>>

\* a missing candidate is created from the patch
update_candidate_Upserts(candidate_id, update_data) ==
    /\ clock <= MaxClock
    /\ IF exists(candidates, candidate_id) /\ ~parses(candidates[candidate_id])
       THEN UNCHANGED <<candidates, clock, last>>
       ELSE /\ candidates' = write_text(candidates, candidate_id,
                                 updated_record(Get(candidates, candidate_id, EmptyDict),
                                                update_data, clock))
            /\ clock' = clock + 1
            /\ last' = Done("update_candidate", candidate_id, "ok")
    /\ UNCHANGED <<evaluations, pending>>

\* update_candidate: read, merge and write without an await in between
update_candidate(candidate_id, update_data) ==
    /\ clock <= MaxClock
    /\ IF ~exists(candidates, candidate_id)
       THEN UNCHANGED <<candidates, clock, last>>   \* return None
       ELSE IF ~parses(candidates[candidate_id])
       THEN UNCHANGED <<candidates, clock, last>>   \* json.loads raises
       ELSE /\ candidates' = write_text(candidates, candidate_id,
                                 updated_record(candidates[candidate_id], update_data, clock))
            /\ clock' = clock + 1
            /\ last' = Done("update_candidate", candidate_id, "ok")
    /\ UNCHANGED <<evaluations, pending>>

\* add_skills_to_candidate: read, append and write without an await in between
add_skills_to_candidate(candidate_id, new_skills) ==
    /\ clock <= MaxClock
    /\ IF ~exists(candidates, candidate_id)
       THEN UNCHANGED <<candidates, clock, last>>   \* return None
       ELSE IF ~parses(candidates[candidate_id])
       THEN UNCHANGED <<candidates, clock, last>>   \* json.loads raises
       ELSE /\ candidates' = write_text(candidates, candidate_id,
                                 skills_added_record(candidates[candidate_id], new_skills, clock))
            /\ clock' = clock + 1
            /\ last' = Done("add_skills_to_candidate", candidate_id, "ok")
    /\ UNCHANGED <<evaluations, pending>>

\* the candidate file is unlinked, the evaluation files are left behind
delete_candidate_NoCascade(candidate_id) ==
    /\ exists(candidates, candidate_id)
    /\ candidates' = unlink(candidates, {candidate_id})
    /\ last' = Done("delete_candidate", candidate_id, "true")
    /\ UNCHANGED <<evaluations, pending, clock>>

\* delete_candidate: no await at all
delete_candidate(candidate_id) ==
    /\ IF ~exists(candidates, candidate_id)
       THEN UNCHANGED <<candidates, evaluations, last>>   \* return False
       ELSE /\ candidates' = unlink(candidates, {candidate_id})
            /\ evaluations' = unlink(evaluations, glob_evaluations(evaluations, candidate_id))
            /\ last' = Done("delete_candidate", candidate_id, "true")
    /\ UNCHANGED <<pending, clock>>

Next ==
    /\ \/ \E output \in CVOutputs, id \in IdSpace : extract_candidate_info(output, id)
       \/ extract_candidate_info_raises
       \/ \E id \in IdSpace : add_interview_evaluation_begin(id)
       \/ \E request \in BagToSet(pending), output \in EvalOutputs, id \in IdSpace :
              add_interview_evaluation_finish(request, output, id)
       \/ \E request \in BagToSet(pending) : add_interview_evaluation_raises(request)
       \/ \E id \in IdSpace, update_data \in UpdatePatches : update_candidate(id, update_data)
       \/ \E id \in IdSpace, new_skills \in NewSkills : add_skills_to_candidate(id, new_skills)
       \/ \E id \in IdSpace : delete_candidate(id)
    /\ UNCHANGED <<normVars, matchVars>>

Spec == Init /\ [][Next]_vars

---------------------------------------------------------------------------
(* The normalizer applied to enumerated inputs *)

Alphabet == {"C", "c", "#", " ", "+"}

RECURSIVE StringsUpTo(_)
StringsUpTo(n) ==
    IF n = 0 THEN {<<>>}
    ELSE LET shorter == StringsUpTo(n - 1)
         IN  shorter \cup {Append(s, ch) : s \in shorter, ch \in Alphabet}

\* spellings of the table's keys, with prefixes, suffixes and padding
NamedSkills == {
    <<".","N","E","T">>,
    <<".","N","e","t"," ","C","o","r","e">>,
    <<" ",".","n","e","t"," ","f","r","a","m","e","w","o","r","k"," ">>,
    <<".","n","e","t","c","o","r","e">>,
    <<"N","o","d","e",".","j","s">>,
    <<"n","o","d","e",".","j","s"," ","n","o","d","e",".","j","s">>,
    <<"F","#"," ","c","#">>,
    <<"c","#"," ",".","n","e","t">>,
    <<"D","o","t","N","e","t"," ","C","o","r","e">> }

SkillInputs == StringsUpTo(MaxLen) \cup NamedSkills

NormInit ==
    /\ candidates = <<>>
    /\ evaluations = <<>>
    /\ pending = EmptyBag
    /\ clock = 0
    /\ last = Done("init", 0, "none")
    /\ pc = "input"
    /\ arg \in SkillInputs
    /\ res = <<>>
    /\ res2 = <<>>
    /\ MatchIdle

NormalizeOnce ==
    /\ pc = "input"
    /\ res' = normalize_skill(arg)
    /\ pc' = "once"
    /\ UNCHANGED <<arg, res2>>

NormalizeAgain ==
    /\ pc = "once"
    /\ res2' = normalize_skill(res)
    /\ pc' = "twice"
    /\ UNCHANGED <<arg, res>>

NormNext == (NormalizeOnce \/ NormalizeAgain) /\ UNCHANGED <<storeVars, matchVars>>

SpecNorm == NormInit /\ [][NormNext]_vars

---------------------------------------------------------------------------
(* The weighted scorer applied to enumerated evaluations *)

\* sub-scores the LLM can put into an evaluation: the 1-10 scale, its ends
\* and values off the scale (the output is not validated)
ScoreValues == {-1, 0, 1, 8, 10, 11}
SoftValues  == {0, 6, 8}

TechnicalOutputs ==
    {EmptyDict, [technical_assessment |-> [notes |-> "n"]]}
    \cup {[technical_assessment |-> [score |-> v]] : v \in ScoreValues}

CulturalOutputs ==
    {EmptyDict, [cultural_fit |-> [notes |-> "n"]]}
    \cup {[cultural_fit |-> [score |-> v]] : v \in ScoreValues}

SoftOutputs ==
    {EmptyDict}
    \cup {[soft_skills_assessment |-> Update(Update(a, b), n)] :
            a \in {EmptyDict} \cup {[communication |-> Num(v)] : v \in SoftValues},
            b \in {EmptyDict} \cup {[teamwork |-> Num(v)] : v \in SoftValues},
            n \in {EmptyDict, [notes |-> Text], [notes |-> Num(8)]}}

ScoreInputs ==
    {Update(Update(tech, soft_part), cult) :
        tech \in TechnicalOutputs, soft_part \in SoftOutputs, cult \in CulturalOutputs}

ScoreInit ==
    /\ candidates = <<>>
    /\ evaluations = <<>>
    /\ pending = EmptyBag
    /\ clock = 0
    /\ last = Done("init", 0, "none")
    /\ pc = "evaluation"
    /\ arg \in ScoreInputs
    /\ res = 0
    /\ res2 = <<>>
    /\ MatchIdle

CalculateScore ==
    /\ pc = "evaluation"
    /\ res' = _calculate_weighted_score(arg)
    /\ pc' = "scored"
    /\ UNCHANGED <<arg, res2>>

ScoreNext == CalculateScore /\ UNCHANGED <<storeVars, matchVars>>

SpecScore == ScoreInit /\ [][ScoreNext]_vars

---------------------------------------------------------------------------
(* match_job: one request against a store, with the collaborators' answers *)

\* JobMatchRequest.top_k: Field(default=10, ge=1, le=50)
MaxTopK == 50
TopKs == {1, 2, MaxTopK}

\* parsed responses of the job analysis call ({} when nothing parses)
JobOutputs == {
    [job_title       |-> "dev",
     level           |-> "Senior",
     required_skills |-> [must_have |-> <<sk_go>>, nice_to_have |-> <<>>]],
    EmptyDict }

\* what rag.aquery returns
Contexts == {"", "ctx"}

\* parsed responses of a scoring call: match_score is not validated
MatchOutputs == {
    EmptyDict,
    [match_score |-> 80,  overall_recommendation |-> "Hire"],
    [match_score |-> 100, overall_recommendation |-> "Strong Hire"],
    [match_score |-> 120, overall_recommendation |-> "Strong Hire"] }

\* overall_recommendation of the evaluations stored for one candidate: values
\* of the evaluation schema (hr_prompts.py) and the spellings match_job tests;
\* "corrupt" stands for an evaluation file that has become unreadable
RecommendationLists ==
    {<<>>, <<"hire">>, <<"Hire">>, <<"Hire", "Strong Hire">>, <<"corrupt", "Hire">>}

\* <id>.json of the candidates directory: missing, unreadable, or a candidate
\* with its evaluations
FileOptions ==
    {[kind |-> k, recs |-> <<>>] : k \in {"absent", "corrupt"}}
    \cup {[kind |-> "stored", recs |-> r] : r \in RecommendationLists}

MatchEvaluation(candidate_id, evaluation_id, recommendation) ==
    evaluation_record([overall_recommendation |-> recommendation],
                      candidate_id, evaluation_id, 0)

RECURSIVE MatchCandidate(_, _, _)
MatchCandidate(candidate_id, recs, n) ==
    IF n = 0
    THEN candidate_record(CHOOSE o \in CVOutputs : "summary" \in DOMAIN o, candidate_id, 0)
    ELSE append_summary(MatchCandidate(candidate_id, recs, n - 1),
                        MatchEvaluation(candidate_id, n,
                                        IF recs[n] = "corrupt" THEN "hire" ELSE recs[n]))

\* <candidate_id>_<evaluation_id>.json
EvaluationFile(candidate_id, evaluation_id, recommendation) ==
    IF recommendation = "corrupt" THEN EmptyFile
    ELSE MatchEvaluation(candidate_id, evaluation_id, recommendation)

\* every order in which glob("*.json") can enumerate the records
Orderings(S) ==
    {l \in [1..Cardinality(S) -> S] : \A i, j \in 1..Cardinality(S) : l[i] = l[j] => i = j}

min(a, b) == IF a <= b THEN a ELSE b

\* list.sort(key=lambda x: x["match_score"], reverse=True): stable, so entries
\* of equal score keep the order in which they were appended
RECURSIVE sort_by_match_score(_)
sort_by_match_score(l) ==
    IF l = <<>> THEN <<>>
    ELSE LET x      == l[Len(l)]
             sorted == sort_by_match_score(SubSeq(l, 1, Len(l) - 1))
             k      == Cardinality({i \in 1..Len(sorted) :
                                       sorted[i].match_score >= x.match_score})
         IN  SubSeq(sorted, 1, k) \o <<x>> \o SubSeq(sorted, k + 1, Len(sorted))

\* "Apply 2.5x weight boost if has positive evaluation", then round(base_score, 1):
\* the score in tenths
boosted_score(match_result, evals) ==
    LET base_score == Get(match_result, "match_score", 0)
        positive   == \E eval_data \in evals :
                         Get(eval_data, "overall_recommendation", "None")
                             \in {"Strong Hire", "Hire"}
    IN  IF positive
        THEN IF base_score * 125 >= 100 * 100 THEN 1000
             ELSE RoundHalfEven(base_score * 125, 10)
        ELSE base_score * 10

\* the entry appended for one candidate
matched_entry(candidate, match_result, evals) ==
    [candidate_id   |-> candidate["_id"],
     name           |-> Get(Get(candidate, "personal_info", EmptyDict), "name", "Unknown"),
     match_score    |-> boosted_score(match_result, evals),
     recommendation |-> Get(match_result, "overall_recommendation", "None"),
     has_evaluation |-> evals # {}]

\* the dict returned when get_all_candidates returned nothing
empty_result(requirements, context) ==
    [job_title          |-> Get(requirements, "job_title", ""),
     job_level          |-> Get(requirements, "level", "None"),
     required_skills    |-> Get(requirements, "required_skills", EmptyDict),
     matched_candidates |-> <<>>,
     total_candidates   |-> 0,
     search_context     |-> IF context # "" THEN context ELSE "No context found"]

\* total_candidates counts the entries that are returned
ranked_result_CountsReturned(requirements, matched, enumerated, k) ==
    [job_title          |-> Get(requirements, "job_title", ""),
     job_level          |-> Get(requirements, "level", "None"),
     required_skills    |-> Get(requirements, "required_skills", EmptyDict),
     matched_candidates |-> SubSeq(sort_by_match_score(matched), 1, min(k, Len(matched))),
     total_candidates   |-> min(k, Len(matched)),
     retrieval_mode     |-> "hybrid"]

\* the dict returned after the loop: sort, matched_candidates[:top_k]
ranked_result(requirements, matched, enumerated, k) ==
    [job_title          |-> Get(requirements, "job_title", ""),
     job_level          |-> Get(requirements, "level", "None"),
     required_skills    |-> Get(requirements, "required_skills", EmptyDict),
     matched_candidates |-> SubSeq(sort_by_match_score(matched), 1, min(k, Len(matched))),
     total_candidates   |-> Len(enumerated),
     retrieval_mode     |-> "hybrid"]

\* hr_data/ when the request arrives: for every id of the id space the file
\* is missing, unreadable, or a candidate with its evaluations
InitMatch ==
    /\ \E f \in [IdSpace -> FileOptions] :
          /\ candidates =
                [id \in {i \in IdSpace : f[i].kind # "absent"} |->
                    IF f[id].kind = "corrupt" THEN EmptyFile
                    ELSE MatchCandidate(id, f[id].recs, Len(f[id].recs))]
          /\ evaluations =
                [k \in {<<id, e>> \in IdSpace \X (1..2) : e <= Len(f[id].recs)} |->
                    EvaluationFile(k[1], k[2], f[k[1]].recs[k[2]])]
    /\ pending = EmptyBag
    /\ clock = 1
    /\ last = Done("init", 0, "none")
    /\ NormIdle
    /\ MatchIdle

\* match_job is called and awaits the job analysis
match_job(k) ==
    /\ mpc = "idle"
    /\ top_k' = k
    /\ mpc' = "job"
    /\ UNCHANGED <<job_requirements, rag_result, all_candidates,
                   candidate_evaluations, matched_candidates, result>>

\* "Step 1": the job analysis returns; the query is built and rag.aquery awaited
match_job_analysed(output) ==
    /\ mpc = "job"
    /\ job_requirements' = output
    /\ mpc' = "query"
    /\ UNCHANGED <<top_k, rag_result, all_candidates,
                   candidate_evaluations, matched_candidates, result>>

\* the job analysis call raises: logged and re-raised
match_job_analysis_raises ==
    /\ mpc = "job"
    /\ mpc' = "raised"
    /\ UNCHANGED <<top_k, job_requirements, rag_result, all_candidates,
                   candidate_evaluations, matched_candidates, result>>

\* "Step 3" returns and "Step 4" enumerates the store; without candidates the
\* empty result is returned, otherwise the evaluations of the first candidate
\* are read and its scoring call is awaited
match_job_retrieved(context, order) ==
    /\ mpc = "query"
    /\ rag_result' = context
    /\ all_candidates' = order
    /\ IF order = <<>>
       THEN /\ result' = empty_result(job_requirements, context)
            /\ mpc' = "returned"
            /\ UNCHANGED candidate_evaluations
       ELSE /\ candidate_evaluations' = _get_candidate_evaluations(order[1]["_id"])
            /\ mpc' = "score"
            /\ UNCHANGED result
    /\ UNCHANGED <<top_k, job_requirements, matched_candidates>>

\* rag.aquery raises: nothing around the call catches it, the handler of the
\* whole method logs and re-raises
match_job_retrieval_raises ==
    /\ mpc = "query"
    /\ mpc' = "raised"
    /\ UNCHANGED <<top_k, job_requirements, rag_result, all_candidates,
                   candidate_evaluations, matched_candidates, result>>

\* "Step 5": a scoring call returns; the entry is appended, and the loop goes
\* on to the next candidate or the ranked result is returned
match_job_scored(output) ==
    /\ mpc = "score"
    /\ LET candidate == all_candidates[Len(matched_candidates) + 1]
           matched   == Append(matched_candidates,
                               matched_entry(candidate, output, candidate_evaluations))
       IN  /\ matched_candidates' = matched
           /\ IF Len(matched) < Len(all_candidates)
              THEN /\ candidate_evaluations' =
                         _get_candidate_evaluations(all_candidates[Len(matched) + 1]["_id"])
                   /\ UNCHANGED <<mpc, result>>
              ELSE /\ result' = ranked_result(job_requirements, matched,
                                              all_candidates, top_k)
                   /\ mpc' = "returned"
                   /\ UNCHANGED candidate_evaluations
    /\ UNCHANGED <<top_k, job_requirements, rag_result, all_candidates>>

\* a scoring call raises: the loop has no handler of its own, the handler of
\* the whole method logs and re-raises
match_job_scoring_raises ==
    /\ mpc = "score"
    /\ mpc' = "raised"
    /\ UNCHANGED <<top_k, job_requirements, rag_result, all_candidates,
                   candidate_evaluations, matched_candidates, result>>

\* no other request changes the store while the match runs
MatchNext ==
    /\ \/ \E k \in TopKs : match_job(k)
       \/ \E output \in JobOutputs : match_job_analysed(output)
       \/ match_job_analysis_raises
       \/ \E context \in Contexts, order \in Orderings(get_all_candidates_result) :
              match_job_retrieved(context, order)
       \/ match_job_retrieval_raises
       \/ \E output \in MatchOutputs : match_job_scored(output)
       \/ match_job_scoring_raises
    /\ UNCHANGED <<storeVars, normVars>>

SpecMatch == InitMatch /\ [][MatchNext]_vars

---------------------------------------------------------------------------
(* _parse_json_response applied to enumerated responses *)

\* an LLM response as a sequence of tokens: "{" and "}", "a" for a member
\* "a": 1, "1" for a number, "F" for a ``` fence, "J" for the word json and
\* "N" for white space
ResponseTokens == {"{", "}", "a", "1", "F", "J", "N"}

ResponseLen == MaxLen + 2

RECURSIVE ResponsesUpTo(_)
ResponsesUpTo(n) ==
    IF n = 0 THEN {<<>>}
    ELSE LET shorter == ResponsesUpTo(n - 1)
         IN  shorter \cup {Append(s, ch) : s \in shorter, ch \in ResponseTokens}

\* "Here you go:\n```json\n{\"a\":1}\n```" of the design, and a block after
\* an object
NamedResponses == {
    <<"J", "N", "F", "J", "N", "{", "a", "}", "N", "F">>,
    <<"{", "}", "N", "F", "N", "{", "a", "}", "F", "N">> }

Responses == ResponsesUpTo(ResponseLen) \cup NamedResponses

\* json.loads(text): the value, or JSONDecodeError (ok = FALSE); white space
\* around the tokens of a document is skipped
loads(text) ==
    LET document == SelectSeq(text, LAMBDA ch : ch # "N")
    IN  IF document = <<"{", "}">> THEN [ok |-> TRUE, value |-> EmptyDict]
        ELSE IF document = <<"{", "a", "}">> THEN [ok |-> TRUE, value |-> [a |-> Num(1)]]
        ELSE IF document = <<"1">> THEN [ok |-> TRUE, value |-> Num(1)]
        ELSE [ok |-> FALSE, value |-> EmptyDict]

Positions(text, ch) == {i \in 1..Len(text) : text[i] = ch}

Lowest(S)  == CHOOSE i \in S : \A j \in S : i <= j
Highest(S) == CHOOSE i \in S : \A j \in S : i >= j

\* re.search(r"```(?:json)?\s*\n?(.*?)\n?```", response, re.DOTALL): group(1)
\* of the leftmost match. The match starts at the first fence that has a fence
\* after it; the tag and the white space after it are consumed, the lazy
\* group stops before the next fence and leaves one newline to \n?
fenced_group(response) ==
    LET fences == Positions(response, "F")
        open   == Lowest(fences)
        close  == Lowest(fences \ {open})
        tagged == IF open + 1 < close /\ response[open + 1] = "J"
                  THEN open + 1 ELSE open
        spaces == {i \in (tagged + 1)..(close - 1) :
                      \A j \in (tagged + 1)..i : response[j] = "N"}
        first  == tagged + Cardinality(spaces) + 1
        last_  == IF first <= close - 1 /\ response[close - 1] = "N"
                  THEN close - 2 ELSE close - 1
    IN  IF Cardinality(fences) < 2 THEN [found |-> FALSE, group |-> <<>>]
        ELSE [found |-> TRUE, group |-> SubSeq(response, first, last_)]

\* re.search(r"\{.*\}", response, re.DOTALL): group(0), from the first "{"
\* to the last "}"
brace_group(response) ==
    LET opens  == Positions(response, "{")
        closes == Positions(response, "}")
    IN  IF opens = {} \/ closes = {} \/ Lowest(opens) > Highest(closes)
        THEN [found |-> FALSE, group |-> <<>>]
        ELSE [found |-> TRUE,
              group |-> SubSeq(response, Lowest(opens), Highest(closes))]

\* the object span is tried before the code block
_parse_json_response_SpanFirst(response) ==
    LET block == fenced_group(response)
        span  == brace_group(response)
    IN  IF loads(response).ok THEN loads(response).value
        ELSE IF span.found /\ loads(span.group).ok THEN loads(span.group).value
        ELSE IF block.found /\ loads(block.group).ok THEN loads(block.group).value
        ELSE EmptyDict

\* _parse_json_response: every json.loads is inside try / except
\* json.JSONDecodeError, so a failed step falls through to the next
_parse_json_response(response) ==
    LET block == fenced_group(response)
        span  == brace_group(response)
    IN  IF loads(response).ok THEN loads(response).value
        ELSE IF block.found /\ loads(block.group).ok THEN loads(block.group).value
        ELSE IF span.found /\ loads(span.group).ok THEN loads(span.group).value
        ELSE EmptyDict

ParseInit ==
    /\ candidates = <<>>
    /\ evaluations = <<>>
    /\ pending = EmptyBag
    /\ clock = 0
    /\ last = Done("init", 0, "none")
    /\ pc = "response"
    /\ arg \in Responses
    /\ res = <<>>
    /\ res2 = <<>>
    /\ MatchIdle

ParseResponse ==
    /\ pc = "response"
    /\ res' = _parse_json_response(arg)
    /\ pc' = "parsed"
    /\ UNCHANGED <<arg, res2>>

ParseNext == ParseResponse /\ UNCHANGED <<storeVars, matchVars>>

SpecParse == ParseInit /\ [][ParseNext]_vars

---------------------------------------------------------------------------
(* One request addressed to a candidate id, with what it returns *)

\* update_candidate, add_skills_to_candidate: None for a missing file, an
\* exception of json.loads for an unreadable one, else the updated record
update_candidate_outcome(candidate_id) ==
    IF ~exists(candidates, candidate_id) THEN "None"
    ELSE IF ~parses(candidates[candidate_id]) THEN "raise"
    ELSE "record"

add_skills_to_candidate_outcome(candidate_id) ==
    IF ~exists(candidates, candidate_id) THEN "None"
    ELSE IF ~parses(candidates[candidate_id]) THEN "raise"
    ELSE "record"

\* delete_candidate: False for a missing file, else True
delete_candidate_outcome(candidate_id) ==
    IF ~exists(candidates, candidate_id) THEN "False" ELSE "True"

\* add_interview_evaluation before its await: ValueError("Candidate not
\* found") for a missing file, an exception of json.loads for an unreadable
\* one, else the LLM call is awaited
add_interview_evaluation_outcome(candidate_id) ==
    IF ~exists(candidates, candidate_id) THEN "ValueError"
    ELSE IF ~parses(candidates[candidate_id]) THEN "raise"
    ELSE "await"

\* get_candidate as get_candidate_outcome gives it
get_candidate_returns(candidate_id) ==
    IF get_candidate_outcome(candidate_id) = "none" THEN "None"
    ELSE IF get_candidate_outcome(candidate_id) = "raise" THEN "raise"
    ELSE "record"

\* the request is noted in arg and what it returns (or raises) in res
Requested(op, candidate_id, outcome) ==
    /\ pc = "off"
    /\ pc' = "done"
    /\ arg' = [op |-> op, id |-> candidate_id]
    /\ res' = outcome
    /\ UNCHANGED res2

get_candidate_request(candidate_id) ==
    /\ Requested("get_candidate", candidate_id, get_candidate_returns(candidate_id))
    /\ UNCHANGED storeVars

update_candidate_request(candidate_id, update_data) ==
    /\ Requested("update_candidate", candidate_id, update_candidate_outcome(candidate_id))
    /\ update_candidate(candidate_id, update_data)

add_skills_to_candidate_request(candidate_id, new_skills) ==
    /\ Requested("add_skills_to_candidate", candidate_id,
                 add_skills_to_candidate_outcome(candidate_id))
    /\ add_skills_to_candidate(candidate_id, new_skills)

delete_candidate_request(candidate_id) ==
    /\ Requested("delete_candidate", candidate_id, delete_candidate_outcome(candidate_id))
    /\ delete_candidate(candidate_id)

add_interview_evaluation_request(candidate_id) ==
    /\ Requested("add_interview_evaluation", candidate_id,
                 add_interview_evaluation_outcome(candidate_id))
    /\ add_interview_evaluation_begin(candidate_id)

RequestNext ==
    /\ \/ \E id \in IdSpace : get_candidate_request(id)
       \/ \E id \in IdSpace, update_data \in UpdatePatches :
              update_candidate_request(id, update_data)
       \/ \E id \in IdSpace, new_skills \in NewSkills :
              add_skills_to_candidate_request(id, new_skills)
       \/ \E id \in IdSpace : delete_candidate_request(id)
       \/ \E id \in IdSpace : add_interview_evaluation_request(id)
    /\ UNCHANGED matchVars

SpecRequest == InitMatch /\ [][RequestNext]_vars

---------------------------------------------------------------------------
(* search_by_skill: one request against a store *)

\* the skill searched for
SearchSkills == {sk_Go, <<"c">>, <<"r", "u", "s", "t">>}

\* parsed CV outputs behind the stored candidates: experience as the CV
\* schema has it (a list of objects), missing, or a list of strings
SearchCVOutputs == [
    full   |-> [personal_info |-> [name |-> "Ann"],
                skills        |-> [technical |-> <<sk_CSharp, sk_go>>, soft |-> <<sk_Go>>],
                experience    |-> << [role |-> "dev"] >>],
    bare   |-> [skills        |-> [technical |-> <<sk_go>>]],
    scalar |-> [skills        |-> [technical |-> <<sk_go, sk_cpp>>],
                experience    |-> <<ItemStrA>>] ]

\* <id>.json: missing, unreadable, or a candidate; the full one has an evaluation
SearchFileOptions == {"absent", "corrupt"} \cup DOMAIN SearchCVOutputs

SearchCandidate(id, kind) ==
    IF kind = "corrupt" THEN EmptyFile
    ELSE IF kind = "full"
    THEN append_summary(candidate_record(SearchCVOutputs[kind], id, 0), StoredEvaluation(id))
    ELSE candidate_record(SearchCVOutputs[kind], id, 0)

SearchInit ==
    /\ \E f \in [IdSpace -> SearchFileOptions] :
          /\ candidates = [id \in {i \in IdSpace : f[i] # "absent"} |->
                              SearchCandidate(id, f[id])]
          /\ evaluations = [k \in {<<id, id>> : id \in {i \in IdSpace : f[i] = "full"}} |->
                               StoredEvaluation(k[1])]
    /\ pending = EmptyBag
    /\ clock = 1
    /\ last = Done("init", 0, "none")
    /\ NormIdle
    /\ MatchIdle

\* "sub in s" for two str
contains(s, sub) ==
    \E i \in 1..(Len(s) - Len(sub) + 1) : SubSeq(s, i, i + Len(sub) - 1) = sub

\* candidates.sort(key=lambda x: x["score"], reverse=True): stable
RECURSIVE sort_by_score(_)
sort_by_score(l) ==
    IF l = <<>> THEN <<>>
    ELSE LET x      == l[Len(l)]
             sorted == sort_by_score(SubSeq(l, 1, Len(l) - 1))
             k      == Cardinality({i \in 1..Len(sorted) : sorted[i].score >= x.score})
         IN  SubSeq(sorted, 1, k) \o <<x>> \o SubSeq(sorted, k + 1, Len(sorted))

\* the body of the try for one candidate file: "skip" when the skill does not
\* match, "raise" when .get is called on an experience item that is no dict
\* (caught and logged by the except of the loop), else the entry
search_entry(cand_data, skill) ==
    LET skills      == Get(cand_data, "skills", EmptyDict)
        all_skills  == Get(skills, "technical", <<>>) \o Get(skills, "soft", <<>>)
        skill_lower == lower(skill)
        matched     == \E i \in 1..Len(all_skills) :
                          Truthy(all_skills[i]) /\ contains(lower(all_skills[i]), skill_lower)
        evals       == Get(cand_data, "evaluations", <<>>)
        best        == CHOOSE i \in 1..Len(evals) :
                          \A j \in 1..Len(evals) :
                              Get(evals[i], "weighted_score", 0) >= Get(evals[j], "weighted_score", 0)
        \* 70 + weighted_score * 0.3, rounded to one decimal, in tenths
        score       == IF Truthy(evals)
                       THEN RoundHalfEven(7000 + 3 * Get(evals[best], "weighted_score", 0), 10)
                       ELSE 700
        experience  == Get(cand_data, "experience", <<>>)
    IN  IF ~matched THEN [kind |-> "skip"]
        ELSE IF Truthy(experience) /\ "t" \in DOMAIN experience[1] THEN [kind |-> "raise"]
        ELSE [kind  |-> "entry",
              entry |-> [candidate_id      |-> Get(cand_data, "_id", "None"),
                         name              |-> Get(Get(cand_data, "personal_info", EmptyDict),
                                                   "name", "Unknown"),
                         matched_skill     |-> skill,
                         all_skills        |-> SubSeq(all_skills, 1, min(10, Len(all_skills))),
                         score             |-> min(1000, score),
                         has_evaluation    |-> Truthy(evals),
                         latest_experience |-> IF Truthy(experience)
                                               THEN Get(experience[1], "role", "None")
                                               ELSE "None"]]

\* the loop of _match_candidates_from_query over the files in glob order
RECURSIVE search_entries(_, _)
search_entries(files, skill) ==
    IF files = <<>> THEN <<>>
    ELSE LET found == IF parses(Head(files)) THEN search_entry(Head(files), skill)
                      ELSE [kind |-> "raise"]
         IN  (IF found.kind = "entry" THEN <<found.entry>> ELSE <<>>)
             \o search_entries(Tail(files), skill)

_match_candidates_from_query(files, skill) == sort_by_score(search_entries(files, skill))

\* search_by_skill is called and awaits rag.aquery(..., top_k=top_k)
search_by_skill(skill, k) ==
    /\ pc = "off"
    /\ pc' = "query"
    /\ arg' = [skill |-> skill, top_k |-> k]
    /\ UNCHANGED <<res, res2>>

\* the query returns; the candidates are matched against the local files and
\* returned, the query result and top_k are not looked at again
search_by_skill_returns(files) ==
    /\ pc = "query"
    /\ res' = _match_candidates_from_query(files, arg.skill)
    /\ pc' = "returned"
    /\ UNCHANGED <<arg, res2>>

\* rag.aquery raises: logged and re-raised
search_by_skill_raises ==
    /\ pc = "query"
    /\ pc' = "raised"
    /\ UNCHANGED <<arg, res, res2>>

SearchNext ==
    /\ \/ \E skill \in SearchSkills, k \in TopKs : search_by_skill(skill, k)
       \/ \E files \in Orderings({candidates[c] : c \in DOMAIN candidates}) :
              search_by_skill_returns(files)
       \/ search_by_skill_raises
    /\ UNCHANGED <<storeVars, matchVars>>

SpecSearch == SearchInit /\ [][SearchNext]_vars

---------------------------------------------------------------------------
(* Properties of the store *)

Stored == DOMAIN candidates

technical(candidate_data) == Get(Get(candidate_data, "skills", EmptyDict), "technical", <<>>)
soft(candidate_data)      == Get(Get(candidate_data, "skills", EmptyDict), "soft", <<>>)
summaries(candidate_data) == Get(candidate_data, "evaluations", <<>>)

\* every string of a skills / technologies collection of a candidate
SkillStrings(candidate_data) ==
    LET projects == Get(candidate_data, "projects", <<>>)
    IN  Range(technical(candidate_data)) \cup Range(soft(candidate_data))
        \cup UNION {Range(Get(projects[i], "technologies", <<>>)) : i \in 1..Len(projects)}

AllowedSet == Range(allowed_fields)

\* C1: every string stored in a candidate's skills.technical, skills.soft or
\* projects[*].technologies is non-empty and equal to its own normalized form
C1_StoredSkillsNormalized ==
    \A c \in Stored : \A s \in SkillStrings(candidates[c]) :
        s # <<>> /\ normalize_skill(s) = s

\* the steps of the three requests C2 is about
MutatesCandidate ==
    \/ \E request \in BagToSet(pending), output \in EvalOutputs, id \in IdSpace :
           add_interview_evaluation_finish(request, output, id)
    \/ \E id \in IdSpace, update_data \in UpdatePatches : update_candidate(id, update_data)
    \/ \E id \in IdSpace, new_skills \in NewSkills : add_skills_to_candidate(id, new_skills)

\* C2: across every step of add_interview_evaluation, update_candidate and
\* add_skills_to_candidate, however they interleave, the evaluation-summary
\* list of a candidate that stays stored keeps its old value as a prefix
C2_SummariesAppendOnly ==
    [][MutatesCandidate =>
          \A c \in Stored : c \in DOMAIN candidates' =>
              IsPrefix(summaries(candidates[c]), summaries(candidates'[c]))]_vars

\* C3: deleting a stored candidate with no request on it in flight returns
\* true; afterwards get_candidate reports not-found, the candidate's
\* evaluation scan is empty and every other candidate's evaluations are there
C3_DeleteCascades ==
    [][\A id \in IdSpace :
          (exists(candidates, id) /\ ~InFlight(id) /\ delete_candidate(id)) =>
              /\ last'.ret = "true"
              /\ get_candidate_outcome(id)' = "none"
              /\ _get_candidate_evaluations(id)' = {}
              /\ glob_evaluations(evaluations, id)' = {}
              /\ \A k \in DOMAIN evaluations :
                     k[1] # id => k \in DOMAIN evaluations' /\ evaluations'[k] = evaluations[k]
      ]_vars

\* a candidate that came with an evaluation has just been deleted, and the
\* other candidate's evaluation is still stored
C3_Witness ==
    /\ clock = 1
    /\ pending = EmptyBag
    /\ \E id \in IdSpace :
          /\ last = Done("delete_candidate", id, "true")
          /\ ~exists(candidates, id)
          /\ \E k \in DOMAIN evaluations : k[1] # id /\ k[1] \in Stored

\* C4: extract_candidate_info stores the new candidate under an id no stored
\* candidate has, and add_interview_evaluation stores the new evaluation under
\* an evaluation id not yet used for that candidate
C4_CreateUsesFreshId ==
    [][/\ \A output \in CVOutputs, id \in IdSpace :
             extract_candidate_info(output, id) => ~exists(candidates, id)
       /\ \A request \in BagToSet(pending), output \in EvalOutputs, id \in IdSpace :
             add_interview_evaluation_finish(request, output, id) =>
                 ~exists(evaluations, <<request.id, id>>)
      ]_vars

C6_TrustWeightsFixed ==
    /\ \A k \in DOMAIN evaluations : evaluations[k]["_weight"] = INTERVIEW_WEIGHT
    /\ \A c \in Stored : candidates[c]["_weight"] = CV_WEIGHT

\* a candidate updated with the patch that carries _weight, and an evaluation
\* stored from an LLM answer that carries _weight
C6_Witness ==
    \E c \in Stored :
        /\ Get(candidates[c], "experience", <<>>) = <<ItemStrA, ItemStr1, ItemInt1>>
        /\ \E k \in glob_evaluations(evaluations, c) :
              /\ evaluations[k]["_evaluated_at"] > 0
              /\ "cultural_fit" \in DOMAIN evaluations[k]

\* C7: update_candidate changes only the allow-listed fields present in the
\* patch and the _updated_at stamp; every other stored field keeps its value,
\* no other key of the patch is stored, the record stays under its id with
\* _id equal to it, and no other file changes
C7_UpdateFrame ==
    [][\A id \in IdSpace, update_data \in UpdatePatches :
          (/\ exists(candidates, id)
           /\ last' = Done("update_candidate", id, "ok")
           /\ update_candidate(id, update_data)) =>
              LET old     == candidates[id]
                  new     == candidates'[id]
                  patched == (AllowedSet \cap DOMAIN update_data) \cup {"_updated_at"}
              IN  /\ exists(candidates', id)
                  /\ new["_id"] = id
                  /\ \A f \in DOMAIN old \ patched : f \in DOMAIN new /\ new[f] = old[f]
                  /\ DOMAIN new \subseteq DOMAIN old \cup patched
                  /\ \A f \in patched \ {"_updated_at"} : f \in DOMAIN new
                  /\ new["_updated_at"] = clock
                  /\ \A c \in Stored \ {id} : c \in DOMAIN candidates' /\ candidates'[c] = candidates[c]
                  /\ DOMAIN candidates' = Stored
                  /\ evaluations' = evaluations
      ]_vars

\* a candidate has just been updated with the patch that carries keys outside
\* the allow-list (_weight, _id, evaluations, hobby)
C7_Witness ==
    \E c \in Stored :
        /\ last = Done("update_candidate", c, "ok")
        /\ candidates[c]["_updated_at"] = clock - 1
        /\ Get(candidates[c], "experience", <<>>) = <<ItemStrA, ItemStr1, ItemInt1>>
        /\ "hobby" \notin DOMAIN candidates[c]
        /\ summaries(candidates[c]) # <<>>

\* the merge C8 describes: the existing items in order, then each patch item
\* whose string form is not yet present, once
RECURSIVE MergeByString(_, _, _)
MergeByString(str(_), existing, patch) ==
    IF patch = <<>> THEN existing
    ELSE IF \E i \in 1..Len(existing) : str(existing[i]) = str(Head(patch))
         THEN MergeByString(str, existing, Tail(patch))
         ELSE MergeByString(str, Append(existing, Head(patch)), Tail(patch))

SameString(s) == s

\* C8: with _merge_lists true, update_candidate merges by string identity the
\* top-level list fields and the technical / soft lists inside skills
C8_MergeListsByString ==
    [][\A id \in IdSpace, update_data \in UpdatePatches :
          (/\ exists(candidates, id)
           /\ Get(update_data, "_merge_lists", FALSE)
           /\ last' = Done("update_candidate", id, "ok")
           /\ update_candidate(id, update_data)) =>
              LET old == candidates[id]
                  new == candidates'[id]
              IN  /\ \A f \in ListFields \cap DOMAIN update_data \cap DOMAIN old :
                         new[f] = MergeByString(Str, old[f], update_data[f])
                  /\ "skills" \in DOMAIN update_data \cap DOMAIN old =>
                         \A kind \in {"technical", "soft"} \cap DOMAIN update_data["skills"]
                                         \cap DOMAIN old["skills"] :
                             new["skills"][kind] =
                                 MergeByString(SameString, old["skills"][kind],
                                               update_data["skills"][kind])
      ]_vars

\* C9: a stored candidate's skills.technical and skills.soft hold no duplicates
C9_SkillListsAreSets ==
    \A c \in Stored :
        NoDuplicates(technical(candidates[c])) /\ NoDuplicates(soft(candidates[c]))

---------------------------------------------------------------------------
(* Properties of the normalizer *)

\* C10: normalize_skill(normalize_skill(s)) = normalize_skill(s)
C10_NormalizeIdempotent == pc = "twice" => res2 = res

\* a spelling that a rule of the table rewrote has been normalized twice
C10_Witness ==
    /\ pc = "twice"
    /\ res # strip(lower(arg))
    /\ \E i \in 1..Len(skill_mappings) : startswith(res, skill_mappings[i][2])

\* the reference normalizer of the design: lowercase and trim, then the first
\* rule of the table whose key is the token or a prefix of it followed by a
\* space replaces that key, one time; the result is not looked up again
FirstRule(token) ==
    LET matching == {i \in 1..Len(skill_mappings) :
                        token = skill_mappings[i][1]
                        \/ startswith(token, skill_mappings[i][1] \o <<" ">>)}
    IN  IF matching = {} THEN 0
        ELSE CHOOSE i \in matching : \A j \in matching : i <= j

NormalizeReference(raw) ==
    IF raw = <<>> THEN raw
    ELSE LET token == strip(lower(raw))
             i     == FirstRule(token)
         IN  IF i = 0 THEN token
             ELSE skill_mappings[i][2]
                  \o SubSeq(token, Len(skill_mappings[i][1]) + 1, Len(token))

\* C11: normalize_skill(s) is the reference normalizer's result for every s:
\* empty input unchanged, otherwise lowercased, trimmed and rewritten by the
\* first matching rule only, one time
C11_NormalizeEqualsReference ==
    pc \in {"once", "twice"} => res = NormalizeReference(arg)

---------------------------------------------------------------------------
(* Properties of the weighted scorer *)

\* the sub-scores the reference aggregate collects: <<n, d>> stands for n / d
TechnicalPart(e) ==
    LET a == Get(e, "technical_assessment", EmptyDict)
    IN  IF "score" \in DOMAIN a THEN {<<"technical", a["score"], 1>>} ELSE {}

CulturalPart(e) ==
    LET a == Get(e, "cultural_fit", EmptyDict)
    IN  IF "score" \in DOMAIN a THEN {<<"cultural", a["score"], 1>>} ELSE {}

SoftPart(e) ==
    LET a    == Get(e, "soft_skills_assessment", EmptyDict)
        nums == {k \in DOMAIN a : k # "notes" /\ a[k].t = "num"}
    IN  IF nums = {} THEN {}
        ELSE {<<"soft", SumNum(a, nums), Cardinality(nums)>>}

\* 10 * mean(parts) rounded to one decimal, in tenths; 0 without parts
ReferenceAggregate(e) ==
    LET parts == TechnicalPart(e) \cup SoftPart(e) \cup CulturalPart(e)
        \* every denominator is 1 except the soft part's
        d     == IF SoftPart(e) = {} THEN 1
                 ELSE (CHOOSE p \in SoftPart(e) : TRUE)[3]
        num(p) == IF p[1] = "soft" THEN p[2] ELSE p[2] * d
        RECURSIVE Total(_)
        Total(ps) == IF ps = {} THEN 0
                     ELSE LET p == CHOOSE x \in ps : TRUE
                          IN  num(p) + Total(ps \ {p})
    IN  IF parts = {} THEN 0
        ELSE RoundHalfEven(100 * Total(parts), d * Cardinality(parts))

\* C12: _calculate_weighted_score(evaluation) is 10 times the mean of the
\* technical score, the mean numeric soft-skill score and the cultural-fit
\* score, of those that are present, rounded to one decimal; 0.0 when none is
C12_ScoreEqualsReference ==
    pc = "scored" => res = ReferenceAggregate(arg)

\* C13: the aggregate score of every evaluation lies in 0 .. 100 (tenths:
\* 0 .. 1000), and so does every weighted_score of a stored summary
C13_ScoreInRange ==
    pc = "scored" => (0 <= res /\ res <= 1000)

---------------------------------------------------------------------------
(* Properties of match_job *)

\* the candidates get_all_candidates can read
Readable == {c \in DOMAIN candidates : parses(candidates[c])}

Returned == result["matched_candidates"]

\* C14: the returned candidates are in descending order of match score, and
\* candidates of equal score in ascending order of candidate id, whatever the
\* order in which the store enumerated them
C14_RankingTotalOrder ==
    mpc = "returned" =>
        \A i, j \in 1..Len(Returned) :
            i < j => \/ Returned[i].match_score > Returned[j].match_score
                     \/ /\ Returned[i].match_score = Returned[j].match_score
                        /\ Returned[i].candidate_id < Returned[j].candidate_id

\* C15: match_job returns min(top_k, N) entries for 1 <= top_k <= 50 and N
\* readable candidates; they are the head of the ranking (in descending order
\* of score, one per candidate, and no candidate left out has a higher score
\* than one returned); total_candidates is N
C15_TopKOfRanking ==
    mpc = "returned" =>
        /\ top_k \in 1..MaxTopK
        /\ Len(Returned) = min(top_k, Cardinality(Readable))
        /\ result["total_candidates"] = Cardinality(Readable)
        /\ \A i, j \in 1..Len(Returned) :
              i < j => /\ Returned[i].match_score >= Returned[j].match_score
                       /\ Returned[i].candidate_id # Returned[j].candidate_id
        /\ Range(Returned) \subseteq Range(matched_candidates)
        /\ {e.candidate_id : e \in Range(matched_candidates)} = Readable
        /\ \A e \in Range(matched_candidates) \ Range(Returned) :
              \A r \in Range(Returned) : e.match_score <= r.match_score

\* a request whose top_k is below the number of readable candidates, next to
\* an unreadable file, has returned
C15_Witness ==
    /\ mpc = "returned"
    /\ Len(Returned) = top_k
    /\ result["total_candidates"] > top_k
    /\ \E e \in Range(matched_candidates) \ Range(Returned) :
          e.match_score < Returned[Len(Returned)].match_score

\* C16: every returned match_score is in 0 .. 100 (tenths: 0 .. 1000)
C16_MatchScoreInRange ==
    mpc = "returned" =>
        \A i \in 1..Len(Returned) :
            0 <= Returned[i].match_score /\ Returned[i].match_score <= 1000

\* a positive overall_recommendation: the values of the evaluation schema and
\* their spellings in the scoring prompt
PositiveRecommendations == {"strong_hire", "hire", "Strong Hire", "Hire"}

\* C17: a candidate with a positive evaluation gets a score above the base
\* score of the scoring call (or the cap, 100), the same score however many
\* positive evaluations there are; a candidate without one keeps the base score
C17_TrustBoost ==
    [][ \A output \in MatchOutputs :
          (mpc = "score" /\ match_job_scored(output)) =>
              LET base     == 10 * Get(output, "match_score", 0)
                  entry    == matched_candidates'[Len(matched_candidates')]
                  positive == {e \in candidate_evaluations :
                                  Get(e, "overall_recommendation", "None")
                                      \in PositiveRecommendations}
              IN  IF positive = {} THEN entry.match_score = base
                  ELSE /\ entry.match_score > base \/ entry.match_score = 1000
                       /\ entry.match_score =
                              boosted_score(output, {CHOOSE e \in positive : TRUE})
      ]_vars

\* C18: rag.aquery raising does not make match_job raise
C18_RetrievalFailureTolerated ==
    [][ match_job_retrieval_raises => mpc' \in {"score", "returned"} ]_vars

\* C19: a scoring call raising for one candidate does not make match_job
\* raise: the loop goes on or the result is returned
C19_ScoringFailureTolerated ==
    [][ match_job_scoring_raises => mpc' \in {"score", "returned"} ]_vars

\* C20: with no candidate in the store and the job requirements extracted,
\* match_job returns an empty list and total_candidates = 0, does not raise
\* and makes no scoring call
C20_EmptyStoreReturnsEmpty ==
    [][ (mpc = "query" /\ job_requirements # EmptyDict /\ Readable = {}) =>
            /\ mpc' = "returned"
            /\ result'["matched_candidates"] = <<>>
            /\ result'["total_candidates"] = 0
      ]_vars

---------------------------------------------------------------------------
(* Properties of the JSON recovery *)

\* the contents of the first fenced code block: what stands between the first
\* two fences, without the json tag
FirstBlock(text) ==
    LET fences == Positions(text, "F")
        f1     == Lowest(fences)
        f2     == Lowest(fences \ {f1})
        inside == SubSeq(text, f1 + 1, f2 - 1)
    IN  IF inside # <<>> /\ Head(inside) = "J" THEN Tail(inside) ELSE inside

HasBlock(text) == Cardinality(Positions(text, "F")) >= 2

\* the span from the first "{" to the last "}"
GreedySpan(text) ==
    SubSeq(text, Lowest(Positions(text, "{")), Highest(Positions(text, "}")))

HasSpan(text) ==
    \E i \in Positions(text, "{") : \E j \in Positions(text, "}") :
        /\ i < j
        /\ \A k \in Positions(text, "{") : i <= k

\* C21: the result is the direct parse of a valid text; failing that, the parse
\* of the first fenced block's contents; failing that, the parse of the span
\* from the first "{" to the last "}"; failing that, the empty object
C21_JsonRecoveryPolicy ==
    pc = "parsed" =>
        IF loads(arg).ok THEN res = loads(arg).value
        ELSE IF HasBlock(arg) /\ loads(FirstBlock(arg)).ok
             THEN res = loads(FirstBlock(arg)).value
        ELSE IF HasSpan(arg) /\ loads(GreedySpan(arg)).ok
             THEN res = loads(GreedySpan(arg)).value
        ELSE res = EmptyDict

\* a response whose code block and whose object span both parse, to different
\* values, has been parsed
C21_Witness ==
    /\ pc = "parsed"
    /\ ~loads(arg).ok
    /\ HasBlock(arg) /\ loads(FirstBlock(arg)).ok
    /\ HasSpan(arg) /\ loads(GreedySpan(arg)).ok
    /\ loads(GreedySpan(arg)).value # loads(FirstBlock(arg)).value

---------------------------------------------------------------------------
(* Properties of requests to an unknown id *)

\* what each operation gives for an id that is not stored
NotFoundResult ==
    [get_candidate            |-> "None",
     update_candidate         |-> "None",
     add_skills_to_candidate  |-> "None",
     delete_candidate         |-> "False",
     add_interview_evaluation |-> "ValueError"]

\* C22: a request for a candidate id that is not stored gives the not-found
\* result (None, False; add_interview_evaluation: a not-found error before
\* the extraction call) and leaves candidates and evaluations as they are
C22_NotFoundLeavesStore ==
    [][ (pc = "off" /\ pc' = "done" /\ ~exists(candidates, arg'.id)) =>
            /\ res' = NotFoundResult[arg'.op]
            /\ UNCHANGED <<candidates, evaluations, pending>>
      ]_vars

\* an update addressed to an id without a file has returned, next to a
\* stored candidate
C22_Witness ==
    /\ pc = "done"
    /\ arg.op = "update_candidate"
    /\ ~exists(candidates, arg.id)
    /\ res = "None"
    /\ Readable # {}

---------------------------------------------------------------------------
(* Properties of the scans *)

Malformed(content) == content = EmptyFile

\* the candidate whose scoring call match_job awaits
Current == all_candidates[Len(matched_candidates) + 1]

\* C23: with malformed candidate and evaluation files in the store, the scans
\* of match_job give exactly the stored records that are not malformed, each
\* in full: the scans complete and skip the malformed ones
C23_ScansSkipCorruptRecords ==
    /\ mpc \in {"score", "returned"} =>
          /\ Range(all_candidates) =
                 {candidates[c] : c \in {d \in DOMAIN candidates : ~Malformed(candidates[d])}}
          /\ NoDuplicates(all_candidates)
    /\ mpc = "score" =>
          candidate_evaluations =
              {evaluations[k] : k \in {e \in DOMAIN evaluations :
                                          /\ e[1] = Current["_id"]
                                          /\ ~Malformed(evaluations[e])}}

\* a match over a store with a malformed candidate file and a malformed
\* evaluation file of a readable candidate has returned that candidate
C23_Witness ==
    /\ mpc = "returned"
    /\ \E c \in DOMAIN candidates : Malformed(candidates[c])
    /\ \E i \in 1..Len(Returned) :
          /\ Returned[i].has_evaluation
          /\ \E e \in DOMAIN evaluations :
                e[1] = Returned[i].candidate_id /\ Malformed(evaluations[e])

---------------------------------------------------------------------------
(* Properties of search_by_skill *)

\* C24: search_by_skill(skill, top_k) returns at most top_k candidates
C24_SearchReturnsAtMostTopK ==
    pc = "returned" => Len(res) <= arg.top_k

---------------------------------------------------------------------------
(* Properties of interleaved requests *)

\* the step in which the suspended add_interview_evaluation request resumes
\* and completes: it leaves the requests in flight and the clock advances
Completes(request) ==
    /\ BagIn(request, pending)
    /\ pending' = pending (-) SetToBag({request})
    /\ clock' = clock + 1

\* the records of candidate id: its file and its evaluation files
RecordsOf(cands, evals, id) ==
    <<IF exists(cands, id) THEN {cands[id]} ELSE {},
      [k \in glob_evaluations(evals, id) |-> evals[k]]>>

\* C25: requests on one candidate id are not serialised and the last full
\* write wins: when a suspended add_interview_evaluation completes, the stored
\* record is the record it had read before the await plus the one new summary,
\* whatever an update_candidate or add_skills_to_candidate has stored in
\* between; and a step that changes the records of one id is a request on
\* that id, so requests on different ids never affect each other's records
C25_LastFullWriteWins ==
    [][/\ \A request \in BagToSet(pending) :
              Completes(request) =>
                 LET read   == request.data
                     stored == candidates'[request.id]
                 IN  /\ DOMAIN stored = DOMAIN read \cup {"evaluations"}
                     /\ \A f \in DOMAIN read \ {"evaluations"} : stored[f] = read[f]
                     /\ Len(summaries(stored)) = Len(summaries(read)) + 1
                     /\ IsPrefix(summaries(read), summaries(stored))
                     /\ summaries(stored)[Len(summaries(stored))]["evaluated_at"] = clock
       /\ <<candidates, evaluations>>' # <<candidates, evaluations>> =>
              \A id \in IdSpace \ {last'.id} :
                  RecordsOf(candidates', evaluations', id) = RecordsOf(candidates, evaluations, id)
      ]_vars

\* an add_interview_evaluation has completed at time 2 and no stored record
\* carries anything written at time 1: the request that completed at time 1
\* wrote the same candidate inside the window, and its write has been replaced
C25_Witness ==
    \E id \in Stored :
        /\ last = Done("add_interview_evaluation", id, "ok")
        /\ clock = 3
        /\ Cardinality(Stored) = 2
        /\ \A c \in Stored :
              /\ "_updated_at" \notin DOMAIN candidates[c]
              /\ candidates[c]["_extracted_at"] = 0
        /\ \A k \in DOMAIN evaluations : evaluations[k]["_evaluated_at"] # 1

\* C26: deletion is permanent under every interleaving: a candidate id that
\* delete_candidate has removed, with its evaluations, stays without a record
\* and without evaluations in every later step of the requests that were in
\* flight (only the extraction of a new CV stores a record that was not there)
C26_DeletionPermanent ==
    [][\A id \in IdSpace :
           /\ ~exists(candidates, id)
           /\ glob_evaluations(evaluations, id) = {}
           /\ last'.op # "extract_candidate_info"
           => /\ ~exists(candidates', id)
              /\ glob_evaluations(evaluations', id) = {}
      ]_vars

\* C27: in every state with no request in flight the store is consistent:
\* the candidate of every stored evaluation is stored and lists exactly one
\* summary with that evaluation's id, and every summary a candidate lists
\* refers to a stored evaluation of that candidate
C27_StoreConsistent ==
    pending = EmptyBag =>
        /\ \A k \in DOMAIN evaluations :
              /\ exists(candidates, k[1])
              /\ Cardinality({i \in 1..Len(summaries(candidates[k[1]])) :
                                 summaries(candidates[k[1]])[i]["evaluation_id"] = k[2]}) = 1
        /\ \A c \in Stored :
              \A i \in 1..Len(summaries(candidates[c])) :
                  <<c, summaries(candidates[c])[i]["evaluation_id"]>> \in DOMAIN evaluations

====
